---------------------------- MODULE Spec2Model ----------------------------
(***************************************************************************)
(* A model of CheckpointFinder.py: extract_and_search(zip_path, username)  *)
(* unpacks a ZIP archive into a temporary directory, scans every top-level *)
(* entry of that directory with the regular expression `pattern`, keeps    *)
(* the matches whose author contains `username`, and renders a report      *)
(* grouped by file.                                                        *)
(*                                                                         *)
(* Strings are TLA+ strings; the regular expression is interpreted         *)
(* character by character.  The file system is the set of scratch          *)
(* directories that exist, each a map from top-level names to nodes.       *)
(***************************************************************************)
EXTENDS Integers, Sequences, FiniteSets, TLC

VARIABLES
    fs,                   \* existing scratch directories: name -> (top-level name -> node)
    zip_path,             \* per call: the archive found at the path given
    username,             \* per call: the query string
    pc,                   \* per call: position in extract_and_search
    tmpdirname,           \* per call: the scratch directory of the call
    idx,                  \* per call: loop index (member being extracted / file being scanned)
    listing,              \* per call: what os.listdir(tmpdirname) returned
    scanned,              \* per call: the (file_name, content) pairs read so far
    related_lines_local,  \* per call: the dict, as a sequence of [file, lines] in insertion order
    exc,                  \* per call: the exception in flight, "" when none
    report,               \* per call: the returned string
    reInput,              \* regular-expression harness: the subject string
    reMatches,            \* regular-expression harness: the match objects found
    rePc                  \* regular-expression harness: "off", "input" or "done"

vars == <<fs, zip_path, username, pc, tmpdirname, idx, listing, scanned,
          related_lines_local, exc, report, reInput, reMatches, rePc>>

callVars == <<fs, zip_path, username, pc, tmpdirname, idx, listing, scanned,
              related_lines_local, exc, report>>

reVars == <<reInput, reMatches, rePc>>

-----------------------------------------------------------------------------
(* Bounds of the model.                                                    *)

\* entries per archive
MaxEntries == 2

\* author/text records per archived file
MaxRecords == 2

\* fields per subject string of the regular-expression harness
MaxTokens == 4

-----------------------------------------------------------------------------
(* Strings.                                                                *)

Min(S) == CHOOSE x \in S : \A y \in S : x <= y

CharAt(s, i) == SubSeq(s, i, i)

\* ord(ch) for the characters the model uses
CodePoint(ch) ==
    CASE ch = "\n" -> 10  [] ch = " " -> 32  [] ch = "\"" -> 34 [] ch = "," -> 44
      [] ch = "-" -> 45   [] ch = "." -> 46  [] ch = "1" -> 49  [] ch = "2" -> 50
      [] ch = "3" -> 51   [] ch = ":" -> 58  [] ch = "B" -> 66  [] ch = "I" -> 73
      [] ch = "a" -> 97   [] ch = "b" -> 98  [] ch = "c" -> 99  [] ch = "e" -> 101
      [] ch = "f" -> 102  [] ch = "g" -> 103 [] ch = "h" -> 104 [] ch = "i" -> 105
      [] ch = "j" -> 106  [] ch = "l" -> 108 [] ch = "n" -> 110 [] ch = "o" -> 111
      [] ch = "r" -> 114  [] ch = "s" -> 115 [] ch = "t" -> 116 [] ch = "u" -> 117
      [] ch = "x" -> 120  [] ch = "y" -> 121 [] ch = "{" -> 123 [] ch = "}" -> 125

\* s.startswith(sub) in place of  sub in s
StartsWith(sub, s) == Len(sub) <= Len(s) /\ SubSeq(s, 1, Len(sub)) = sub

\* Python's  sub in s
Contains(sub, s) ==
    \E i \in 0..(Len(s) - Len(sub)) : SubSeq(s, i + 1, i + Len(sub)) = sub

\* Python's  a < b  on str: codepoint-wise lexicographic order
StrLess(a, b) ==
    LET n    == IF Len(a) < Len(b) THEN Len(a) ELSE Len(b)
        diff == {i \in 1..n : CharAt(a, i) # CharAt(b, i)}
    IN  IF diff = {} THEN Len(a) < Len(b)
        ELSE CodePoint(CharAt(a, Min(diff))) < CodePoint(CharAt(b, Min(diff)))

\* does the literal lit occur in s at position p
LitAt(s, p, lit) ==
    /\ p >= 1
    /\ p + Len(lit) - 1 <= Len(s)
    /\ SubSeq(s, p, p + Len(lit) - 1) = lit

\* "." matches every character but the newline (no re.DOTALL): can s[from..to] be a run of "."
DotRun(s, from, to) == \A i \in from..to : CharAt(s, i) # "\n"

RECURSIVE Concat(_)
Concat(ss) == IF ss = <<>> THEN "" ELSE Head(ss) \o Concat(Tail(ss))

\* sep.join(ss)
RECURSIVE Join(_, _)
Join(ss, sep) ==
    IF ss = <<>> THEN ""
    ELSE IF Len(ss) = 1 THEN ss[1]
    ELSE ss[1] \o sep \o Join(Tail(ss), sep)

\* s.split(sep) for a one-character sep
RECURSIVE Split(_, _)
Split(s, sep) ==
    LET hits == {i \in 1..Len(s) : CharAt(s, i) = sep}
    IN  IF hits = {} THEN <<s>>
        ELSE <<SubSeq(s, 1, Min(hits) - 1)>> \o Split(SubSeq(s, Min(hits) + 1, Len(s)), sep)

-----------------------------------------------------------------------------
(* The regular expression                                                  *)
(*   "author": "(?P<author>.*?)",.*?"text": "(?P<text>.*?)"                *)
(* as four literals around three non-greedy runs of ".".                   *)

AuthorLit == "\"author\": \""

AuthorClose == "\","

TextLit == "\"text\": \""

TextClose == "\""

\* the quantifier .*? takes the shortest run that lets the rest match
Lazy(S) == Min(S)

\* where the text group can end when it starts at t0
TextEnds(s, t0) ==
    {e \in t0..Len(s) : LitAt(s, e, TextClose) /\ DotRun(s, t0, e - 1)}

\* where the "text" literal can start when the middle run starts at m0
TextStarts(s, m0) ==
    {m \in m0..Len(s) :
        /\ LitAt(s, m, TextLit)
        /\ DotRun(s, m0, m - 1)
        /\ TextEnds(s, m + Len(TextLit)) # {}}

\* where the author group can end when it starts at a0
AuthorEnds(s, a0) ==
    {e \in a0..Len(s) :
        /\ LitAt(s, e, AuthorClose)
        /\ DotRun(s, a0, e - 1)
        /\ TextStarts(s, e + Len(AuthorClose)) # {}}

\* can the pattern match starting exactly at p
MatchesAt(s, p) ==
    LitAt(s, p, AuthorLit) /\ AuthorEnds(s, p + Len(AuthorLit)) # {}

\* the match object of the pattern at p (MatchesAt(s, p) holds)
MatchAt(s, p) ==
    LET a0 == p + Len(AuthorLit)
        ae == Lazy(AuthorEnds(s, a0))
        ts == Lazy(TextStarts(s, ae + Len(AuthorClose)))
        t0 == ts + Len(TextLit)
        te == Lazy(TextEnds(s, t0))
    IN  [start  |-> p,
         author |-> SubSeq(s, a0, ae - 1),
         tstart |-> ts,
         text   |-> SubSeq(s, t0, te - 1),
         end    |-> te + Len(TextClose)]

\* re.finditer(pattern, s) from position pos on: leftmost match first, the
\* search resuming where the match ended
RECURSIVE FindIterFrom(_, _)
FindIterFrom(s, pos) ==
    LET starts == {p \in pos..Len(s) : MatchesAt(s, p)}
    IN  IF starts = {} THEN <<>>
        ELSE LET m == MatchAt(s, Min(starts))
             IN  <<m>> \o FindIterFrom(s, m.end)

FindIter(s) == FindIterFrom(s, 1)

\* re.findall(pattern, s): the (author, text) groups of every match
FindAll(s) ==
    LET ms == FindIter(s)
    IN  [k \in 1..Len(ms) |-> <<ms[k].author, ms[k].text>>]

-----------------------------------------------------------------------------
(* Archives and the scratch file system.                                   *)

\* the names tempfile.mkdtemp can draw for a scratch directory
TmpNames == {"tmpA", "tmpB"}

\* an empty directory
EmptyDir == [n \in {} |-> 0]

FileNode(content) == [isdir |-> FALSE, content |-> content, children |-> {}]

DirNode(children) == [isdir |-> TRUE, content |-> "", children |-> children]

\* ZipFile.extract of one member e into the directory d: a member stored under
\* a subdirectory creates that subdirectory at the top level
ExtractMember(d, e) ==
    LET key  == IF e.dir = "" THEN e.name ELSE e.dir
        node == IF e.dir = "" THEN FileNode(e.content)
                ELSE DirNode((IF key \in DOMAIN d /\ d[key].isdir
                              THEN d[key].children ELSE {}) \cup {e.name})
    IN  [n \in DOMAIN d \cup {key} |-> IF n = key THEN node ELSE d[n]]

\* one record of an exported chat file, as the line it is stored as
RecordLine(r) ==
    "{" \o AuthorLit \o r.author \o AuthorClose \o " " \o TextLit \o r.text
        \o TextClose \o "}\n"

Records == {[author |-> "al", text |-> "x"], [author |-> "Bo", text |-> "y"]}

\* the empty query, part of one author's name, and a name in the wrong case
Queries == {"", "l", "b"}

SeqsUpTo(S, n) == UNION {[1..k -> S] : k \in 0..n}

Injective(f) == \A i, j \in DOMAIN f : f[i] = f[j] => i = j

\* the contents of the archived files: up to MaxRecords record lines
FileContents ==
    {Concat([i \in 1..Len(rs) |-> RecordLine(rs[i])]) : rs \in SeqsUpTo(Records, MaxRecords)}

\* the member paths: two top-level files and one file under a subdirectory
Paths == {[dir |-> "", name |-> "chat1.json"], [dir |-> "", name |-> "chat2.json"],
          [dir |-> "logs", name |-> "chat3.json"]}

\* what the member under the subdirectory holds (the scan never reads it)
NestedContent == RecordLine([author |-> "al", text |-> "x"])

MembersOf(ps) ==
    {[i \in 1..Len(ps) |-> [dir |-> ps[i].dir, name |-> ps[i].name, content |-> cs[i]]] :
        cs \in {c \in [1..Len(ps) -> FileContents] :
                   \A i \in 1..Len(ps) : ps[i].dir # "" => c[i] = NestedContent}}

\* a path that is no ZIP archive
NotAZip == [valid |-> FALSE, members |-> <<>>]

\* the ZIP archives: up to MaxEntries members with distinct paths, in archive order
ZipArchives ==
    {[valid |-> TRUE, members |-> ms] :
        ms \in UNION {MembersOf(ps) : ps \in {q \in SeqsUpTo(Paths, MaxEntries) : Injective(q)}}}

Inputs == (ZipArchives \cup {NotAZip}) \X Queries

\* the orders os.listdir may return the names of a directory in
ListDirOrders(d) ==
    {p \in [1..Cardinality(DOMAIN d) -> DOMAIN d] : Injective(p)}

-----------------------------------------------------------------------------
(* The body of extract_and_search.                                         *)

HasKey(d, file) == \E i \in 1..Len(d) : d[i].file = file

\* the same, a new key put in front of the older ones
AppendLineFront(d, file, line) ==
    IF HasKey(d, file)
    THEN [i \in 1..Len(d) |->
            IF d[i].file = file THEN [d[i] EXCEPT !.lines = Append(@, line)] ELSE d[i]]
    ELSE <<[file |-> file, lines |-> <<line>>]>> \o d

\* related_lines_local[file_name].append(line), the key created when missing
AppendLine(d, file, line) ==
    IF HasKey(d, file)
    THEN [i \in 1..Len(d) |->
            IF d[i].file = file THEN [d[i] EXCEPT !.lines = Append(@, line)] ELSE d[i]]
    ELSE Append(d, [file |-> file, lines |-> <<line>>])

FormatLine(author, text) == author \o " - " \o text

\* the loop over matches: a match is kept when username is in its author
RECURSIVE ScanMatches(_, _, _, _)
ScanMatches(d, file, matches, user) ==
    IF matches = <<>> THEN d
    ELSE LET author == Head(matches)[1]
             text   == Head(matches)[2]
             d1     == IF Contains(user, author)
                       THEN AppendLine(d, file, FormatLine(author, text))
                       ELSE d
         IN  ScanMatches(d1, file, Tail(matches), user)

\* forgetting set(): the lines as they were appended
KeepDuplicates(lines) == lines

\* list(set(lines)): the distinct lines, in the order the set happens to
\* iterate in (sorted() follows, so which order is chosen does not show)
Unique(lines) ==
    LET S == {lines[i] : i \in 1..Len(lines)}
    IN  CHOOSE p \in [1..Cardinality(S) -> S] : Injective(p)

\* x put before the first element of the ascending list that is greater than it
Insert(x, sorted) ==
    LET later == {i \in 1..Len(sorted) : StrLess(x, sorted[i])}
        at    == IF later = {} THEN Len(sorted) + 1 ELSE Min(later)
    IN  SubSeq(sorted, 1, at - 1) \o <<x>> \o SubSeq(sorted, at, Len(sorted))

\* the same list, x put before the first element that is smaller than it
InsertDescending(x, sorted) ==
    LET later == {i \in 1..Len(sorted) : StrLess(sorted[i], x)}
        at    == IF later = {} THEN Len(sorted) + 1 ELSE Min(later)
    IN  SubSeq(sorted, 1, at - 1) \o <<x>> \o SubSeq(sorted, at, Len(sorted))

\* sorted(lines, reverse=True)
RECURSIVE SortedDescending(_)
SortedDescending(lines) ==
    IF lines = <<>> THEN <<>>
    ELSE InsertDescending(Head(lines), SortedDescending(Tail(lines)))

\* sorted(unique_lines)
RECURSIVE Sorted(_)
Sorted(lines) ==
    IF lines = <<>> THEN <<>> ELSE Insert(Head(lines), Sorted(Tail(lines)))

Header(file) == "In file " \o file \o ":"

\* the list `output`, built over related_lines_local.items()
RECURSIVE Output(_)
Output(d) ==
    IF d = <<>> THEN <<>>
    ELSE <<Header(d[1].file)>> \o Sorted(Unique(d[1].lines)) \o <<"\n">> \o Output(Tail(d))

Render(d) == Join(Output(d), "\n")

-----------------------------------------------------------------------------
(* Actions: the steps of one call c of extract_and_search.                 *)

\* the calls the model can make
CallIds == {1, 2}

Holding(c) == pc[c] \in {"open", "extract", "scan", "cleanup"}

\* a mkdtemp that takes the name it drew without looking whether it exists
AnyName(existing) == TmpNames

\* the names mkdtemp may create: it retries until os.mkdir does not fail
\* with FileExistsError
FreshNames(existing) == TmpNames \ existing

\* tempfile.TemporaryDirectory(): mkdtemp creates a new, empty directory
Mkdtemp(c) ==
    /\ pc[c] = "start"
    /\ \E n \in FreshNames(DOMAIN fs) :
          /\ fs' = [k \in DOMAIN fs \cup {n} |-> IF k = n THEN EmptyDir ELSE fs[k]]
          /\ tmpdirname' = [tmpdirname EXCEPT ![c] = n]
    /\ pc' = [pc EXCEPT ![c] = "open"]
    /\ UNCHANGED <<zip_path, username, idx, listing, scanned, related_lines_local,
                   exc, report, reVars>>

\* an open whose failure is swallowed
OpenErrorSwallowed(archive) == ""

\* the exception zipfile.ZipFile(zip_path, 'r') raises, "" when it opens
OpenError(archive) == IF archive.valid THEN "" ELSE "BadZipFile"

OpenZip(c) ==
    /\ pc[c] = "open"
    /\ exc' = [exc EXCEPT ![c] = OpenError(zip_path[c])]
    /\ pc' = [pc EXCEPT ![c] = IF OpenError(zip_path[c]) = "" THEN "extract" ELSE "cleanup"]
    /\ idx' = [idx EXCEPT ![c] = 1]
    /\ UNCHANGED <<fs, zip_path, username, tmpdirname, listing, scanned,
                   related_lines_local, report, reVars>>

\* zip_ref.extractall(tmpdirname), one member per step; writing a member may
\* fail with OSError
ExtractNext(c) ==
    /\ pc[c] = "extract"
    /\ idx[c] <= Len(zip_path[c].members)
    /\ \E ok \in BOOLEAN :
          IF ok
          THEN /\ fs' = [fs EXCEPT ![tmpdirname[c]] =
                            ExtractMember(@, zip_path[c].members[idx[c]])]
               /\ idx' = [idx EXCEPT ![c] = @ + 1]
               /\ UNCHANGED <<pc, exc>>
          ELSE /\ exc' = [exc EXCEPT ![c] = "OSError"]
               /\ pc' = [pc EXCEPT ![c] = "cleanup"]
               /\ UNCHANGED <<fs, idx>>
    /\ UNCHANGED <<zip_path, username, tmpdirname, listing, scanned,
                   related_lines_local, report, reVars>>

\* os.listdir(tmpdirname): the names of the directory, in arbitrary order
ListDir(c) ==
    /\ pc[c] = "extract"
    /\ idx[c] > Len(zip_path[c].members)
    /\ \E order \in ListDirOrders(fs[tmpdirname[c]]) :
          listing' = [listing EXCEPT ![c] = order]
    /\ idx' = [idx EXCEPT ![c] = 1]
    /\ pc' = [pc EXCEPT ![c] = "scan"]
    /\ UNCHANGED <<fs, zip_path, username, tmpdirname, scanned, related_lines_local,
                   exc, report, reVars>>

\* the exception open(file_path, 'r') raises on a node, "" when it opens
OpenFileError(node) == IF node.isdir THEN "IsADirectoryError" ELSE ""

\* one iteration of the loop over the listing: open, read, findall, filter
ScanFile(c) ==
    /\ pc[c] = "scan"
    /\ idx[c] <= Len(listing[c])
    /\ LET file_name == listing[c][idx[c]]
           node      == fs[tmpdirname[c]][file_name]
           content   == node.content
           matches   == FindAll(content)
       IN  IF OpenFileError(node) # ""
           THEN /\ exc' = [exc EXCEPT ![c] = OpenFileError(node)]
                /\ pc' = [pc EXCEPT ![c] = "cleanup"]
                /\ UNCHANGED <<idx, scanned, related_lines_local>>
           ELSE /\ related_lines_local' = [related_lines_local EXCEPT ![c] =
                                              ScanMatches(@, file_name, matches, username[c])]
                /\ scanned' = [scanned EXCEPT ![c] =
                                  Append(@, [file |-> file_name, content |-> content])]
                /\ idx' = [idx EXCEPT ![c] = @ + 1]
                /\ UNCHANGED <<pc, exc>>
    /\ UNCHANGED <<fs, zip_path, username, tmpdirname, listing, report, reVars>>

\* an exit that leaves the directory behind
LeaveTree(tree, name) == tree

\* the directories left after TemporaryDirectory.__exit__ removed name
RemoveTree(tree, name) == [k \in DOMAIN tree \ {name} |-> tree[k]]

\* leaving the `with tempfile.TemporaryDirectory()` block, normally or by an
\* exception: the directory is removed, then the exception (if any) propagates
Cleanup(c) ==
    /\ \/ pc[c] = "cleanup"
       \/ pc[c] = "scan" /\ idx[c] > Len(listing[c])
    /\ fs' = RemoveTree(fs, tmpdirname[c])
    /\ pc' = [pc EXCEPT ![c] = IF exc[c] = "" THEN "format" ELSE "raised"]
    /\ UNCHANGED <<zip_path, username, tmpdirname, idx, listing, scanned,
                   related_lines_local, exc, report, reVars>>

\* the lines after the with block: deduplicate, sort, render, return
Format(c) ==
    /\ pc[c] = "format"
    /\ report' = [report EXCEPT ![c] = Render(related_lines_local[c])]
    /\ pc' = [pc EXCEPT ![c] = "returned"]
    /\ UNCHANGED <<fs, zip_path, username, tmpdirname, idx, listing, scanned,
                   related_lines_local, exc, reVars>>

extract_and_search(c) ==
    \/ Mkdtemp(c)
    \/ OpenZip(c)
    \/ ExtractNext(c)
    \/ ListDir(c)
    \/ ScanFile(c)
    \/ Cleanup(c)
    \/ Format(c)

\* a directory of another program in the temporary area
ForeignDir == [n \in {"other"} |-> FileNode("")]

\* the state in which the calls cs are made with inputs from ins, while the
\* names in taken are directories of other programs
InitCalls(cs, ins, taken) ==
    /\ fs = [n \in taken |-> ForeignDir]
    /\ \E f \in [cs -> ins] :
          /\ zip_path = [c \in CallIds |-> IF c \in cs THEN f[c][1] ELSE NotAZip]
          /\ username = [c \in CallIds |-> IF c \in cs THEN f[c][2] ELSE ""]
    /\ pc = [c \in CallIds |-> IF c \in cs THEN "start" ELSE "idle"]
    /\ tmpdirname = [c \in CallIds |-> ""]
    /\ idx = [c \in CallIds |-> 0]
    /\ listing = [c \in CallIds |-> <<>>]
    /\ scanned = [c \in CallIds |-> <<>>]
    /\ related_lines_local = [c \in CallIds |-> <<>>]
    /\ exc = [c \in CallIds |-> ""]
    /\ report = [c \in CallIds |-> ""]

ReOff == reInput = "" /\ reMatches = <<>> /\ rePc = "off"

\* one call of extract_and_search on any archive and any query, one name of
\* the temporary area being taken by another program
Init == InitCalls({1}, Inputs, {"tmpA"}) /\ ReOff

Next == \E c \in CallIds : extract_and_search(c)

Spec == Init /\ [][Next]_vars

\* two concurrent calls, each on an archive whose only member is chat1.json
ConcInputs ==
    {inp \in Inputs :
        /\ inp[1].valid
        /\ Len(inp[1].members) = 1
        /\ inp[1].members[1].dir = ""
        /\ inp[1].members[1].name = "chat1.json"
        /\ inp[2] = ""}

InitConc == InitCalls({1, 2}, ConcInputs, {}) /\ ReOff

SpecConc == InitConc /\ [][Next]_vars

-----------------------------------------------------------------------------
(* The regular expression on its own: re.finditer(pattern, content) over   *)
(* subject strings built from author fields, text fields and newlines.     *)

AuthorField(a) == AuthorLit \o a \o AuthorClose \o " "

TextField(t) == TextLit \o t \o TextClose \o " "

Fields == {AuthorField("al"), AuthorField("Bo"), TextField("x"), TextField("y"), "\n"}

Subjects == {Concat(fields) : fields \in SeqsUpTo(Fields, MaxTokens)}

InitRegex ==
    /\ InitCalls({}, Inputs, {})
    /\ reInput \in Subjects
    /\ reMatches = <<>>
    /\ rePc = "input"

\* matches = re.findall(pattern, content), the match objects kept
ApplyPattern ==
    /\ rePc = "input"
    /\ reMatches' = FindIter(reInput)
    /\ rePc' = "done"
    /\ UNCHANGED <<reInput, callVars>>

NextRegex == ApplyPattern

SpecRegex == InitRegex /\ [][NextRegex]_vars

-----------------------------------------------------------------------------
(* Reading a returned report back: its blocks, each a header line naming   *)
(* a file followed by the lines up to the blank separator.                 *)

HeaderPrefix == "In file "

IsHeader(l) ==
    /\ Len(l) > Len(HeaderPrefix)
    /\ SubSeq(l, 1, Len(HeaderPrefix)) = HeaderPrefix
    /\ CharAt(l, Len(l)) = ":"

HeaderFile(l) == SubSeq(l, Len(HeaderPrefix) + 1, Len(l) - 1)

\* the lines before the first blank line
RECURSIVE UpToBlank(_)
UpToBlank(ls) ==
    IF ls = <<>> \/ Head(ls) = "" THEN <<>> ELSE <<Head(ls)>> \o UpToBlank(Tail(ls))

RECURSIVE ParseBlocks(_)
ParseBlocks(ls) ==
    IF ls = <<>> THEN <<>>
    ELSE IF IsHeader(Head(ls))
         THEN LET body == UpToBlank(Tail(ls))
              IN  <<[file |-> HeaderFile(Head(ls)), lines |-> body]>>
                    \o ParseBlocks(SubSeq(ls, Len(body) + 2, Len(ls)))
         ELSE ParseBlocks(Tail(ls))

\* the blocks of the report call c returned
Blocks(c) == ParseBlocks(Split(report[c], "\n"))

HasBlock(blocks, file) == \E k \in 1..Len(blocks) : blocks[k].file = file

\* the lines of every one of the blocks that names file
BlockLines(blocks, file) ==
    UNION {{blocks[k].lines[i] : i \in 1..Len(blocks[k].lines)} :
             k \in {j \in 1..Len(blocks) : blocks[j].file = file}}

Returned(c) == pc[c] = "returned"

Raised(c) == pc[c] = "raised"

\* the members of the archive of call c stored at the top level
TopMembers(c) ==
    {zip_path[c].members[i] : i \in {j \in 1..Len(zip_path[c].members) :
                                        zip_path[c].members[j].dir = ""}}

HasNestedMember(c) ==
    \E i \in 1..Len(zip_path[c].members) : zip_path[c].members[i].dir # ""

\* q occurs in a as a run of consecutive characters
IsSubstring(q, a) ==
    \E i \in 1..(Len(a) + 1) : \E j \in (i - 1)..Len(a) : SubSeq(a, i, j) = q

\* the lines a file of the given content owes to the query q
OwedLines(content, q) ==
    LET found == FindAll(content)
    IN  {found[k][1] \o " - " \o found[k][2] :
            k \in {j \in 1..Len(found) : IsSubstring(q, found[j][1])}}

\* where the member named file stands in the archive of call c
MemberPos(c, file) ==
    CHOOSE i \in 1..Len(zip_path[c].members) :
        zip_path[c].members[i].dir = "" /\ zip_path[c].members[i].name = file

\* where file stands in what os.listdir returned to call c
ListingPos(c, file) == CHOOSE i \in 1..Len(listing[c]) : listing[c][i] = file

HasDuplicates(lines) == \E i, j \in 1..Len(lines) : i # j /\ lines[i] = lines[j]

-----------------------------------------------------------------------------
(* The claims.                                                             *)

\* C1: once extract_and_search has returned or raised, its scratch
\* directory, with everything extracted into it, no longer exists, whatever
\* the exit path was.
C1_ScratchDirectoryRemoved ==
    \A c \in CallIds :
        (Returned(c) \/ Raised(c)) =>
            /\ tmpdirname[c] \in TmpNames
            /\ tmpdirname[c] \notin DOMAIN fs

\* C1 witness: the call raised because extraction failed after a member had
\* already been written into the scratch directory.
C1_Witness ==
    \E c \in CallIds : Raised(c) /\ exc[c] = "OSError" /\ idx[c] > 1

\* C2: in a returned report the lines of a file's block are exactly the
\* lines "{author} - {text}" of the pattern matches in that file whose
\* author contains the query (all matches when the query is empty); every
\* block names a top-level member.
C2_BlockIsTheFilteredMatches ==
    \A c \in CallIds :
        Returned(c) =>
            LET blocks == Blocks(c)
            IN  /\ \A m \in TopMembers(c) :
                      BlockLines(blocks, m.name) = OwedLines(m.content, username[c])
                /\ \A k \in 1..Len(blocks) :
                      \E m \in TopMembers(c) : m.name = blocks[k].file

\* C2 witness: a query that is part of one author's name only, on a file with
\* matches of both authors: the block holds the one line.
C2_Witness ==
    \E c \in CallIds :
        /\ Returned(c)
        /\ username[c] = "l"
        /\ \E m \in TopMembers(c) :
              /\ Len(FindAll(m.content)) = 2
              /\ FindAll(m.content)[1] # FindAll(m.content)[2]
              /\ BlockLines(Blocks(c), m.name) = {"al - x"}

\* C3: within the block of one file no line appears twice, however often the
\* same author/text pair was matched.
C3_LinesUniqueInBlock ==
    \A c \in CallIds :
        Returned(c) =>
            LET blocks == Blocks(c)
            IN  \A k \in 1..Len(blocks) : ~HasDuplicates(blocks[k].lines)

\* C3 witness: a file matched the same pair twice and its block has one line.
C3_Witness ==
    \E c \in CallIds :
        /\ Returned(c)
        /\ \E k \in 1..Len(related_lines_local[c]) :
              /\ HasDuplicates(related_lines_local[c][k].lines)
              /\ \E b \in 1..Len(Blocks(c)) :
                    /\ Blocks(c)[b].file = related_lines_local[c][k].file
                    /\ Len(Blocks(c)[b].lines) = 1

\* C4: the lines of a block are in ascending codepoint-wise order.
C4_LinesAscendingInBlock ==
    \A c \in CallIds :
        Returned(c) =>
            LET blocks == Blocks(c)
            IN  \A k \in 1..Len(blocks) :
                    \A i, j \in 1..Len(blocks[k].lines) :
                        i < j => ~StrLess(blocks[k].lines[j], blocks[k].lines[i])

\* C4 witness: the matches occurred in descending order ("al" before "Bo");
\* the block lists them ascending.
C4_Witness ==
    \E c \in CallIds :
        /\ Returned(c)
        /\ \E k \in 1..Len(related_lines_local[c]) :
              related_lines_local[c][k].lines = <<"al - x", "Bo - y">>
        /\ \E b \in 1..Len(Blocks(c)) : Blocks(c)[b].lines = <<"Bo - y", "al - x">>

\* C5 as claimed: the blocks of the report appear in the order in which the
\* archive enumerates its members.
C5_BlocksInArchiveOrder ==
    \A c \in CallIds :
        Returned(c) =>
            LET blocks == Blocks(c)
            IN  \A i, j \in 1..Len(blocks) :
                    i < j => MemberPos(c, blocks[i].file) < MemberPos(c, blocks[j].file)

\* C5 amended: the blocks of the report appear in the order in which
\* os.listdir returned the names of the scratch directory.
C5_BlocksInListingOrder ==
    \A c \in CallIds :
        Returned(c) =>
            LET blocks == Blocks(c)
            IN  \A i, j \in 1..Len(blocks) :
                    i < j => ListingPos(c, blocks[i].file) < ListingPos(c, blocks[j].file)

\* C5 witness: two blocks, in the order of the listing and against the order
\* of the archive.
C5_Witness ==
    \E c \in CallIds :
        /\ Returned(c)
        /\ Len(Blocks(c)) = 2
        /\ MemberPos(c, Blocks(c)[1].file) > MemberPos(c, Blocks(c)[2].file)
        /\ ListingPos(c, Blocks(c)[1].file) < ListingPos(c, Blocks(c)[2].file)

\* C6: a returned report has a block for a file exactly when the file has a
\* match whose author contains the query, and is empty when no file has one;
\* and when no file of a readable, fully extracted archive has one, the call
\* does not raise.
C6_BlockIffMatch ==
    \A c \in CallIds :
        /\ Returned(c) =>
              LET blocks == Blocks(c)
              IN  /\ \A m \in TopMembers(c) :
                        HasBlock(blocks, m.name) <=> OwedLines(m.content, username[c]) # {}
                  /\ (\A m \in TopMembers(c) : OwedLines(m.content, username[c]) = {})
                        => report[c] = ""
        /\ (Raised(c) /\ exc[c] \notin {"BadZipFile", "OSError"}) =>
              \E m \in TopMembers(c) : OwedLines(m.content, username[c]) # {}

\* C7: on a path that is no ZIP archive the call raises the error of the
\* open, unmodified: nothing is extracted, listed or scanned, no report is
\* returned, and the open is not tried again.
C7_BadArchivePropagates ==
    \A c \in CallIds :
        (~zip_path[c].valid /\ pc[c] \notin {"idle", "start", "open"}) =>
            /\ pc[c] \in {"cleanup", "raised"}
            /\ exc[c] = "BadZipFile"
            /\ listing[c] = <<>>
            /\ scanned[c] = <<>>
            /\ report[c] = ""

\* C7 witness: a call on a path that is no ZIP archive has raised.
C7_Witness ==
    \E c \in CallIds : ~zip_path[c].valid /\ Raised(c) /\ exc[c] = "BadZipFile"

\* C8: two calls in flight never hold the same scratch directory, and what
\* a call finds in its directory and reads from it is what its own archive
\* holds under that name.
C8_ScratchDirectoriesDisjoint ==
    \A c \in CallIds :
        /\ \A d \in CallIds \ {c} :
              (Holding(c) /\ Holding(d)) => tmpdirname[c] # tmpdirname[d]
        /\ Holding(c) =>
              /\ tmpdirname[c] \in DOMAIN fs
              /\ \A n \in DOMAIN fs[tmpdirname[c]] :
                    \E m \in TopMembers(c) :
                        m.name = n /\ fs[tmpdirname[c]][n].content = m.content
        /\ \A k \in 1..Len(scanned[c]) :
              \E m \in TopMembers(c) :
                  m.name = scanned[c][k].file /\ m.content = scanned[c][k].content

\* C8 witness: both calls are in flight, their archives hold different
\* contents under the same name, and each has read its file.
C8_Witness ==
    /\ Holding(1) /\ Holding(2)
    /\ zip_path[1].members[1].name = zip_path[2].members[1].name
    /\ zip_path[1].members[1].content # zip_path[2].members[1].content
    /\ Len(scanned[1]) = 1 /\ Len(scanned[2]) = 1

\* C9: on an archive that contains a directory the call completes: once the
\* archive is extracted nothing raises.
C9_DirectoriesSupported ==
    \A c \in CallIds :
        (HasNestedMember(c) /\ Raised(c)) => exc[c] = "OSError"

\* C10: the matches do not overlap, each pairs its author with the first
\* text field after it, and no other author field lies between the captured
\* author and the captured text.
C10_ShortestSpan ==
    rePc = "done" =>
        \A k \in 1..Len(reMatches) :
            /\ k > 1 => reMatches[k - 1].end <= reMatches[k].start
            /\ ~\E p \in (reMatches[k].start + 1)..(reMatches[k].tstart - 1) :
                    LitAt(reInput, p, TextLit)
            /\ ~\E p \in (reMatches[k].start + 1)..(reMatches[k].tstart - 1) :
                    LitAt(reInput, p, AuthorLit)

=============================================================================
